---- MODULE Spec2Model ----
(***************************************************************************)
(* Model of upstream.go of mos-chinadns: the upstream factory, the TCP and *)
(* UDP exchangers with their cancellation watchers, and the UDP            *)
(* connection pool (runCleanner, put, get).                                *)
(*                                                                         *)
(* Time is a discrete clock `now`; every call of time.Now / time.Since     *)
(* inside one locked pool operation reads the same instant.  A socket is   *)
(* a number 1..MaxSock, 0 is the nil *net.UDPConn.  A deadline forced by   *)
(* SetDeadline(time.Now()) has expired as soon as it is set, so a socket's *)
(* deadline is a boolean.  Calling Close through a nil *net.UDPConn is a   *)
(* nil-pointer dereference: the run-time panic ends the process, which the *)
(* model records in `panicked` (no action is enabled afterwards).          *)
(***************************************************************************)
EXTENDS Integers, Sequences, FiniteSets, TLC

\* ---------------------------------------------------------------- bounds
NumCalls == 3
MaxSock == 4
MaxTime == 2
MaxCap == 2
MaxDur == 2
MaxStale == 1
MaxCancel == 2
PoolCap == 2
PoolTTL == 1

\* ------------------------------------------------------ program constants
HeaderLen == 12

NilConn == 0
Calls == 1..NumCalls
Socks == 1..MaxSock
Bytes == {0, 1}
Lens == {HeaderLen - 1, HeaderLen}
NoMsg == [hi |-> 0, lo |-> 0, n |-> 0]
\* raw messages: two header bytes and a length; the two transaction IDs
\* used are byte-swapped images of each other
Msgs == {m \in [hi : Bytes, lo : Bytes, n : Lens] : m.hi # m.lo}
Queries == {m \in Msgs : m.n = HeaderLen}
\* the query of call e: consecutive calls carry different transaction IDs
QueryOf(e) == [hi |-> e % 2, lo |-> (e + 1) % 2, n |-> HeaderLen]

VARIABLES
  upstream,          \* result of newUpstream: [kind, err]
  now,               \* the clock
  pool,              \* udpConnPool.pool: sequence of [conn, lastUsed]
  lastClean,         \* udpConnPool.lastClean
  maxSize,           \* udpConnPool.maxSize
  ttl,               \* udpConnPool.ttl
  cleannerInterval,  \* udpConnPool.cleannerInterval
  nextSock,          \* number of sockets dialed so far
  closeCount,        \* per socket: how many times Close was invoked on it
  deadline,          \* per socket: an expired deadline is set
  panicked,          \* a run-time panic ended the process
  pc,                \* per call: idle, write, read, done
  conn,              \* per call: the socket c of the exchange
  isNewConn,         \* per call: isNewConn
  qRaw,              \* per call: the query
  ctxDone,           \* per call: ctx is cancelled
  onceDone,          \* per call: the sync.Once has run
  watcher,           \* per call: none, waiting, exited
  forced,            \* per call: how many times its watcher set a deadline
  stale,             \* per call: mismatched replies discarded by goto read
  lastRead,          \* per call: the last message a read delivered
  disp,              \* per call: what the exchange did with c: none, put, close
  res,               \* per call: [err, rRaw] returned by exchange
  held,              \* sockets held by direct callers of the pool
  lastOp,            \* the last pool operation, as its caller observed it
  putLog,            \* the sockets passed to put, while no get was called
  anyGet,            \* get was called
  args               \* the arguments newUpstream was called with, if recorded

poolVars == <<pool, lastClean, maxSize, ttl, cleannerInterval>>
sockVars == <<nextSock, closeCount, deadline>>
callVars == <<pc, conn, isNewConn, qRaw, ctxDone, onceDone, watcher, forced,
              stale, lastRead, disp, res>>
vars == <<upstream, now, poolVars, sockVars, panicked, callVars, held, lastOp, putLog, anyGet, args>>

\* ------------------------------------------------------------ message IDs
\* utils.GetMsgID: the 16-bit transaction ID, bytes 0-1 in network order
GetMsgID(m) == m.hi * 256 + m.lo

\* ---------------------------------------------------------------- factory
\* a factory that builds a DoH client without looking at url
newUpstreamAnyURL(addrOk, prot, urlEmpty) ==
  CASE prot = "tcp" -> [kind |-> "tcp", err |-> "nil"]
    [] prot \in {"udp", ""} ->
         IF addrOk THEN [kind |-> "udp", err |-> "nil"]
                   ELSE [kind |-> "none", err |-> "resolve"]
    [] prot = "doh" -> [kind |-> "doh", err |-> "nil"]
    [] OTHER -> [kind |-> "none", err |-> "unsupported"]

\* newUpstream(addr, prot, url, rootCAs); addrOk: net.ResolveUDPAddr succeeds
newUpstream(addrOk, prot, urlEmpty) ==
  CASE prot = "tcp" -> [kind |-> "tcp", err |-> "nil"]
    [] prot \in {"udp", ""} ->
         IF addrOk THEN [kind |-> "udp", err |-> "nil"]
                   ELSE [kind |-> "none", err |-> "resolve"]
    [] prot = "doh" ->
         IF urlEmpty THEN [kind |-> "none", err |-> "needsURL"]
                     ELSE [kind |-> "doh", err |-> "nil"]
    [] OTHER -> [kind |-> "none", err |-> "unsupported"]

Prots == {"tcp", "udp", "", "doh", "tls"}

\* ------------------------------------------------------------------- pool
\* the state of one sweep loop: the backing array, len(res), the sockets
\* closed so far (in order) and whether Close was reached through nil
CloseAt(st, i) ==
  IF st.arr[i].conn = NilConn
  THEN [st EXCEPT !.panic = TRUE]
  ELSE [st EXCEPT !.closed = Append(@, st.arr[i].conn),
                  !.arr[i].conn = NilConn]

KeepAt(st, i) ==
  [st EXCEPT !.arr[st.j + 1] = st.arr[i], !.j = st.j + 1]

\* a scheduled loop body that also keeps an entry of age exactly TTL
ScheduledStepInclusive(st, i, t) ==
  IF t - st.arr[i].lastUsed <= ttl THEN KeepAt(st, i) ELSE CloseAt(st, i)

\* body of the scheduled loop, lines 227-236
ScheduledStep(st, i, t) ==
  IF t - st.arr[i].lastUsed < ttl THEN KeepAt(st, i) ELSE CloseAt(st, i)

\* body of the capacity loop, lines 244-258 (i is 1-based: i <= mid)
ForceHalf(st, i, mid) == IF i <= mid THEN CloseAt(st, i) ELSE st

ThenExpired(s1, i, t) ==
  IF s1.panic THEN s1
  ELSE IF t - s1.arr[i].lastUsed < ttl THEN KeepAt(s1, i)
  ELSE CloseAt(s1, i)

CapacityStep(st, i, mid, t) == ThenExpired(ForceHalf(st, i, mid), i, t)

RECURSIVE ScheduledLoop(_, _, _)
ScheduledLoop(st, i, t) ==
  IF i > Len(st.arr) \/ st.panic THEN st
  ELSE ScheduledLoop(ScheduledStep(st, i, t), i + 1, t)

RECURSIVE CapacityLoop(_, _, _, _)
CapacityLoop(st, i, mid, t) ==
  IF i > Len(st.arr) \/ st.panic THEN st
  ELSE CapacityLoop(CapacityStep(st, i, mid, t), i + 1, mid, t)

\* p.pool = res, which a panic never reaches
Sweeped(st) == IF st.panic THEN st.arr ELSE SubSeq(st.arr, 1, st.j)

\* res := p.pool[:0], with the sockets closed so far
LoopStart(pl, cl) == [arr |-> pl, j |-> 0, closed |-> cl, panic |-> FALSE]

ScheduledDue(lc, t) == t - lc > cleannerInterval

AtCapacity(pl) == Len(pl) >= maxSize

\* the record a pool operation works on: the pool fields it changes, the
\* sockets it closed, whether it panicked, and which sweeps it ran
Unswept(pl, lc) ==
  [pool |-> pl, lastClean |-> lc, closed |-> <<>>, panic |-> FALSE,
   scheduled |-> FALSE, capacity |-> FALSE]

\* lines 224-238
ScheduledDone(st, t) ==
  [pool |-> Sweeped(st), lastClean |-> t, closed |-> st.closed,
   panic |-> st.panic, scheduled |-> TRUE, capacity |-> FALSE]

ScheduledSweep(pl, lc, t) ==
  IF ScheduledDue(lc, t)
  THEN ScheduledDone(ScheduledLoop(LoopStart(pl, <<>>), 1, t), t)
  ELSE Unswept(pl, lc)

\* lines 241-260
CapacityDone(st, r) ==
  [r EXCEPT !.pool = Sweeped(st), !.closed = st.closed, !.panic = st.panic,
            !.capacity = TRUE]

CapacitySweep(r, t) ==
  IF ~r.panic /\ AtCapacity(r.pool)
  THEN CapacityDone(CapacityLoop(LoopStart(r.pool, r.closed), 1,
                                 Len(r.pool) \div 2, t), r)
  ELSE r

\* runCleanner
RunCleanner(pl, lc, t) == CapacitySweep(ScheduledSweep(pl, lc, t), t)

\* a put that appends to a pool holding exactly maxSize entries
PutAfterOffByOne(r, c, t) ==
  IF r.panic THEN r
  ELSE IF Len(r.pool) > maxSize
  THEN [r EXCEPT !.closed = Append(@, c)]
  ELSE [r EXCEPT !.pool = Append(@, [conn |-> c, lastUsed |-> t])]

\* a put that inserts the new entry at index 0
PutAfterFront(r, c, t) ==
  IF r.panic THEN r
  ELSE IF AtCapacity(r.pool)
  THEN [r EXCEPT !.closed = Append(@, c)]
  ELSE [r EXCEPT !.pool = <<[conn |-> c, lastUsed |-> t]>> \o @]

\* put, lines 273-277, after runCleanner returned r
PutAfter(r, c, t) ==
  IF r.panic THEN r
  ELSE IF AtCapacity(r.pool)
  THEN [r EXCEPT !.closed = Append(@, c)]
  ELSE [r EXCEPT !.pool = Append(@, [conn |-> c, lastUsed |-> t])]

Put(pl, lc, c, t) == PutAfter(RunCleanner(pl, lc, t), c, t)

NoEntry == [conn |-> NilConn, lastUsed |-> -1]

\* a get that hands out the last entry's socket without removing the entry
PoppedKept(r, e, t) ==
  IF t - e.lastUsed > ttl
  THEN [r EXCEPT !.pool = SubSeq(@, 1, Len(@) - 1),
                 !.closed = Append(@, e.conn)]
         @@ [ret |-> NilConn, popped |-> e]
  ELSE r @@ [ret |-> e.conn, popped |-> e]

\* get, lines 290-300, after runCleanner returned r: the record of the
\* operation with the popped entry e and the result
Popped(r, e, t) ==
  IF t - e.lastUsed > ttl
  THEN IF e.conn = NilConn
       THEN [r EXCEPT !.pool = SubSeq(@, 1, Len(@) - 1), !.panic = TRUE]
              @@ [ret |-> NilConn, popped |-> e]
       ELSE [r EXCEPT !.pool = SubSeq(@, 1, Len(@) - 1),
                      !.closed = Append(@, e.conn)]
              @@ [ret |-> NilConn, popped |-> e]
  ELSE [r EXCEPT !.pool = SubSeq(@, 1, Len(@) - 1)]
         @@ [ret |-> e.conn, popped |-> e]

GetAfter(r, t) ==
  IF r.panic \/ Len(r.pool) = 0
  THEN r @@ [ret |-> NilConn, popped |-> NoEntry]
  ELSE Popped(r, r.pool[Len(r.pool)], t)

Get(pl, lc, t) == GetAfter(RunCleanner(pl, lc, t), t)

\* Close invoked on every socket of cl (once per occurrence)
Closed(cl) ==
  [s \in Socks |-> closeCount[s] + Cardinality({k \in DOMAIN cl : cl[k] = s})]

NoOp == [op |-> "none", popped |-> NoEntry, ret |-> NilConn,
         scheduled |-> FALSE, capacity |-> FALSE, at |-> 0, panic |-> FALSE]

\* the zero time.Time of a pool that never swept: longer ago than any interval
ZeroTime == 0 - (MaxTime + MaxDur + PoolTTL + 1)

NoRes == [err |-> "none", rRaw |-> NoMsg]

\* the arguments of newUpstream are not recorded
NoArgs == [addr |-> "", prot |-> "", url |-> "", rootCAs |-> FALSE]

InitCommon ==
  /\ now = 0
  /\ pool = <<>>
  /\ lastClean = ZeroTime
  /\ nextSock = 0
  /\ closeCount = [s \in Socks |-> 0]
  /\ deadline = [s \in Socks |-> FALSE]
  /\ panicked = FALSE
  /\ pc = [e \in Calls |-> "idle"]
  /\ conn = [e \in Calls |-> NilConn]
  /\ isNewConn = [e \in Calls |-> FALSE]
  /\ qRaw = [e \in Calls |-> NoMsg]
  /\ ctxDone = [e \in Calls |-> FALSE]
  /\ onceDone = [e \in Calls |-> FALSE]
  /\ watcher = [e \in Calls |-> "none"]
  /\ forced = [e \in Calls |-> 0]
  /\ stale = [e \in Calls |-> 0]
  /\ lastRead = [e \in Calls |-> NoMsg]
  /\ disp = [e \in Calls |-> "none"]
  /\ res = [e \in Calls |-> NoRes]
  /\ held = {}
  /\ lastOp = NoOp
  /\ putLog = <<>>
  /\ anyGet = FALSE

\* the program: one upstream made by newUpstream; a UDP upstream owns
\* newUDPConnPool(size, ttl, gcInterval) with ttl = gcInterval
Init ==
  /\ InitCommon
  /\ \E addrOk \in BOOLEAN, prot \in Prots, urlEmpty \in BOOLEAN :
       upstream = newUpstream(addrOk, prot, urlEmpty)
  /\ maxSize = PoolCap
  /\ ttl = PoolTTL
  /\ cleannerInterval = PoolTTL
  /\ args = NoArgs

Alive(kind) == ~panicked /\ upstream.kind = kind

\* the effect of a pool operation r on the pool and on the sockets it closed
PoolEffect(r) ==
  /\ pool' = r.pool
  /\ lastClean' = r.lastClean
  /\ closeCount' = Closed(r.closed)
  /\ panicked' = r.panic

\* an exit path that leaves the socket open
CloseConnSkipped(c) == closeCount' = closeCount

\* c.Close() by an exchange
CloseConn(c) == closeCount' = [closeCount EXCEPT ![c] = @ + 1]

\* return of exchange e with error err and reply m, after doing d with c
Return(e, err, m, d) ==
  /\ pc' = [pc EXCEPT ![e] = "done"]
  /\ res' = [res EXCEPT ![e] = [err |-> err, rRaw |-> m]]
  /\ disp' = [disp EXCEPT ![e] = d]

\* calls are started in the order of their numbers (they are alike)
InOrder(e) == IF e = 1 THEN TRUE ELSE pc[e - 1] # "idle"

InFlight == {e \in Calls : pc[e] \in {"write", "read"}}
MayStart(e) == pc[e] = "idle" /\ InOrder(e)

\* time passes
Tick ==
  /\ Alive("udp")
  /\ now < MaxTime
  /\ now' = now + 1
  /\ UNCHANGED <<upstream, poolVars, sockVars, panicked, callVars, held, lastOp, putLog, anyGet, args>>

\* the caller cancels the context of call e (at most MaxCancel contexts)
Cancel(e) ==
  /\ ~panicked
  /\ upstream.kind \in {"tcp", "udp"}
  /\ upstream.kind = "udp" => pc[e] # "idle"
  /\ ~ctxDone[e]
  /\ Cardinality({x \in Calls : ctxDone[x]}) < MaxCancel
  /\ ctxDone' = [ctxDone EXCEPT ![e] = TRUE]
  /\ UNCHANGED <<upstream, now, poolVars, sockVars, panicked, pc, conn,
                 isNewConn, qRaw, onceDone, watcher, forced, stale, lastRead,
                 disp, res, held, lastOp, putLog, anyGet, args>>

\* the watcher goroutine of call e: on ctx.Done it forces the deadline, for
\* UDP through once.Do; SetDeadline on a closed socket fails without effect
SetDeadlineNow(c) ==
  IF closeCount[c] = 0 THEN [deadline EXCEPT ![c] = TRUE] ELSE deadline

\* a UDP watcher that sets the deadline without the sync.Once
WatcherUngated(e) ==
  /\ ~panicked
  /\ watcher[e] = "waiting"
  /\ ctxDone[e]
  /\ watcher' = [watcher EXCEPT ![e] = "exited"]
  /\ deadline' = SetDeadlineNow(conn[e])
  /\ forced' = [forced EXCEPT ![e] = @ + 1]
  /\ UNCHANGED <<upstream, now, poolVars, nextSock, closeCount, panicked, pc,
                 conn, isNewConn, qRaw, ctxDone, onceDone, stale, lastRead,
                 disp, res, held, lastOp, putLog, anyGet, args>>

Watcher(e) ==
  /\ ~panicked
  /\ watcher[e] = "waiting"
  /\ ctxDone[e]
  /\ watcher' = [watcher EXCEPT ![e] = "exited"]
  /\ IF upstream.kind = "udp" /\ onceDone[e]
     THEN UNCHANGED <<deadline, forced, onceDone>>
     ELSE /\ deadline' = SetDeadlineNow(conn[e])
          /\ forced' = [forced EXCEPT ![e] = @ + 1]
          /\ onceDone' = IF upstream.kind = "udp"
                         THEN [onceDone EXCEPT ![e] = TRUE] ELSE onceDone
  /\ UNCHANGED <<upstream, now, poolVars, nextSock, closeCount, panicked, pc,
                 conn, isNewConn, qRaw, ctxDone, stale, lastRead, disp, res, held,
                 lastOp, putLog, anyGet, args>>

\* an exchange that keeps the deadline it finds on its socket
ClearDeadlineSkipped(c) == deadline

\* line 141: c.SetDeadline(time.Time{})
ClearDeadline(c) == [deadline EXCEPT ![c] = FALSE]

\* ----------------------------------------------------------- UDP exchange
\* lines 132-149: get, or DialUDP when get returned nil; SetDeadline(zero);
\* the watcher goroutine is started
UdpStart(e) ==
  /\ Alive("udp")
  /\ MayStart(e)
  /\ \E dialOk \in BOOLEAN :
       \E g \in {Get(pool, lastClean, now)} :
       \E c \in {IF g.ret # NilConn THEN g.ret ELSE nextSock + 1} :
           /\ PoolEffect(g)
           /\ IF g.panic
              THEN UNCHANGED <<nextSock, deadline, callVars>>
              ELSE IF g.ret = NilConn /\ (~dialOk \/ nextSock >= MaxSock)
              THEN /\ Return(e, "dial", NoMsg, "none")
                   /\ UNCHANGED <<nextSock, deadline, conn, isNewConn, qRaw,
                                  ctxDone, onceDone, watcher, forced, stale,
                                  lastRead>>
              ELSE /\ nextSock' = IF g.ret = NilConn THEN nextSock + 1
                                  ELSE nextSock
                   /\ conn' = [conn EXCEPT ![e] = c]
                   /\ isNewConn' = [isNewConn EXCEPT ![e] = (g.ret = NilConn)]
                   /\ deadline' = ClearDeadline(c)
                   /\ qRaw' = [qRaw EXCEPT ![e] = QueryOf(e)]
                   /\ watcher' = [watcher EXCEPT ![e] = "waiting"]
                   /\ pc' = [pc EXCEPT ![e] = "write"]
                   /\ UNCHANGED <<ctxDone, onceDone, forced, stale, lastRead,
                                  disp, res>>
  /\ UNCHANGED <<upstream, now, maxSize, ttl, cleannerInterval, held, lastOp, putLog, anyGet, args>>

\* lines 151-155: c.Write; an expired deadline fails it with a timeout
UdpWrite(e) ==
  /\ Alive("udp")
  /\ pc[e] = "write"
  /\ \E ok \in BOOLEAN :
       IF deadline[conn[e]] \/ ~ok
       THEN /\ CloseConn(conn[e])
            /\ Return(e, IF deadline[conn[e]] THEN "timeout" ELSE "io",
                      NoMsg, "close")
       ELSE /\ pc' = [pc EXCEPT ![e] = "read"]
            /\ UNCHANGED <<closeCount, res, disp>>
  /\ UNCHANGED <<upstream, now, poolVars, nextSock, deadline, panicked, conn,
                 isNewConn, qRaw, ctxDone, onceDone, watcher, forced, stale,
                 lastRead, held, lastOp, putLog, anyGet, args>>

\* a put-and-return that leaves the sync.Once untouched
PutAndReturnArmed(e, err, m) ==
  \E r \in {Put(pool, lastClean, conn[e], now)} :
      /\ UNCHANGED onceDone
      /\ PoolEffect(r)
      /\ IF r.panic THEN UNCHANGED <<pc, res, disp>>
                    ELSE Return(e, err, m, "put")

\* lines 163-166 and 188-190: once.Do(func(){}), put(c), return
PutAndReturn(e, err, m) ==
  \E r \in {Put(pool, lastClean, conn[e], now)} :
      /\ onceDone' = [onceDone EXCEPT ![e] = TRUE]
      /\ PoolEffect(r)
      /\ IF r.panic THEN UNCHANGED <<pc, res, disp>>
                    ELSE Return(e, err, m, "put")

\* lines 168-170 and 175-177: c.Close(), return
CloseAndReturn(e, err) ==
  /\ CloseConn(conn[e])
  /\ Return(e, err, NoMsg, "close")
  /\ UNCHANGED <<pool, lastClean, panicked, onceDone>>

\* line 181: a mismatched reply on a reused connection is read again
Retry(e, m) == GetMsgID(m) # GetMsgID(qRaw[e]) /\ ~isNewConn[e]

\* lines 159-190: one c.Read and what follows it
UdpRead(e) ==
  /\ Alive("udp")
  /\ pc[e] = "read"
  /\ IF deadline[conn[e]]
     THEN /\ IF ctxDone[e] THEN PutAndReturn(e, "timeout", NoMsg)
                           ELSE CloseAndReturn(e, "timeout")
          /\ UNCHANGED <<stale, lastRead>>
     ELSE \E ok \in BOOLEAN, m \in Msgs :
            IF ~ok THEN CloseAndReturn(e, "io") /\ UNCHANGED <<stale, lastRead>>
            ELSE /\ lastRead' = [lastRead EXCEPT ![e] = m]
                 /\ IF m.n < HeaderLen
                    THEN CloseAndReturn(e, "short") /\ UNCHANGED stale
                    ELSE IF Retry(e, m)
                    THEN /\ stale[e] < MaxStale
                         /\ stale' = [stale EXCEPT ![e] = @ + 1]
                         /\ UNCHANGED <<pool, lastClean, closeCount, panicked,
                                        onceDone, pc, res, disp>>
                    ELSE PutAndReturn(e, "nil", m) /\ UNCHANGED stale
  /\ UNCHANGED <<upstream, now, maxSize, ttl, cleannerInterval, nextSock,
                 deadline, conn, isNewConn, qRaw, ctxDone, watcher, forced,
                 held, lastOp, putLog, anyGet, args>>

\* ----------------------------------------------------------- TCP exchange
\* lines 93-105: DialContext(ctx), defer c.Close(), the watcher is started
TcpStart(e) ==
  /\ Alive("tcp")
  /\ MayStart(e)
  /\ \E dialOk \in BOOLEAN :
       IF ctxDone[e] \/ ~dialOk \/ nextSock >= MaxSock
       THEN /\ Return(e, "dial", NoMsg, "none")
            /\ UNCHANGED <<nextSock, conn, isNewConn, qRaw, watcher>>
       ELSE /\ nextSock' = nextSock + 1
            /\ conn' = [conn EXCEPT ![e] = nextSock + 1]
            /\ isNewConn' = [isNewConn EXCEPT ![e] = TRUE]
            /\ qRaw' = [qRaw EXCEPT ![e] = QueryOf(e)]
            /\ watcher' = [watcher EXCEPT ![e] = "waiting"]
            /\ pc' = [pc EXCEPT ![e] = "write"]
            /\ UNCHANGED <<res, disp>>
  /\ UNCHANGED <<upstream, now, poolVars, closeCount, deadline, panicked,
                 ctxDone, onceDone, forced, stale, lastRead, held, lastOp, putLog, anyGet, args>>

\* lines 107-110: writeMsgToTCP; every return runs the deferred c.Close()
TcpWrite(e) ==
  /\ Alive("tcp")
  /\ pc[e] = "write"
  /\ \E ok \in BOOLEAN :
       IF deadline[conn[e]] \/ ~ok
       THEN /\ CloseConn(conn[e])
            /\ Return(e, IF deadline[conn[e]] THEN "timeout" ELSE "io",
                      NoMsg, "close")
       ELSE /\ pc' = [pc EXCEPT ![e] = "read"]
            /\ UNCHANGED <<closeCount, res, disp>>
  /\ UNCHANGED <<upstream, now, poolVars, nextSock, deadline, panicked, conn,
                 isNewConn, qRaw, ctxDone, onceDone, watcher, forced, stale,
                 lastRead, held, lastOp, putLog, anyGet, args>>

\* lines 111-121: readMsgFromTCP, the ID check, the deferred c.Close()
TcpRead(e) ==
  /\ Alive("tcp")
  /\ pc[e] = "read"
  /\ CloseConn(conn[e])
  /\ IF deadline[conn[e]]
     THEN Return(e, "timeout", NoMsg, "close") /\ UNCHANGED lastRead
     ELSE \E ok \in BOOLEAN, m \in Queries :
            IF ~ok THEN Return(e, "io", NoMsg, "close") /\ UNCHANGED lastRead
            ELSE /\ lastRead' = [lastRead EXCEPT ![e] = m]
                 /\ IF GetMsgID(m) # GetMsgID(qRaw[e])
                    THEN Return(e, "ErrId", NoMsg, "close")
                    ELSE Return(e, "nil", m, "close")
  /\ UNCHANGED <<upstream, now, poolVars, nextSock, deadline, panicked, conn,
                 isNewConn, qRaw, ctxDone, onceDone, watcher, forced, stale,
                 held, lastOp, putLog, anyGet, args>>

Next ==
  \/ Tick
  \/ \E e \in Calls : Cancel(e)
  \/ \E e \in Calls : Watcher(e)
  \/ \E e \in Calls : UdpStart(e)
  \/ \E e \in Calls : UdpWrite(e)
  \/ \E e \in Calls : UdpRead(e)
  \/ \E e \in Calls : TcpStart(e)
  \/ \E e \in Calls : TcpWrite(e)
  \/ \E e \in Calls : TcpRead(e)

Spec == Init /\ [][Next]_vars

\* a read on a socket whose deadline has expired returns
ReadTimesOut(e) == UdpRead(e) /\ deadline[conn[e]]

\* the exchange followed: the last one started, which can run on a
\* connection any earlier exchange put
Last == NumCalls

\* the scheduler runs the watcher goroutine of the exchange followed once it
\* is ready, and its read under an expired deadline returns.  Nothing makes
\* the upstream reply.
FairSpec ==
  /\ Spec
  /\ WF_vars(Watcher(Last))
  /\ WF_vars(ReadTimesOut(Last))

\* ------------------------------------------------- the pool driven directly
\* newUDPConnPool(size, ttl, gcInterval) with any parameters
PoolInit ==
  /\ InitCommon
  /\ upstream = newUpstream(TRUE, "udp", TRUE)
  /\ args = NoArgs
  /\ maxSize \in 0..MaxCap
  /\ ttl \in 1..MaxDur
  /\ cleannerInterval \in 1..MaxDur

Observed(op, r, popped, ret) ==
  [op |-> op, popped |-> popped, ret |-> ret, scheduled |-> r.scheduled,
   capacity |-> r.capacity, at |-> now, panic |-> r.panic]

\* a caller puts socket c: one it got from the pool, or one it just dialed
PoolPutOf(c) ==
  \E r \in {Put(pool, lastClean, c, now)} :
      /\ PoolEffect(r)
      /\ held' = IF r.panic THEN held ELSE held \ {c}
      /\ lastOp' = Observed("put", r, NoEntry, NilConn)
      /\ putLog' = IF anyGet THEN putLog ELSE Append(putLog, c)

PoolPut ==
  /\ ~panicked
  /\ \E c \in held \cup {nextSock + 1} :
       /\ c \in held \cup Socks
       /\ PoolPutOf(c)
       /\ nextSock' = IF c \in held THEN nextSock ELSE nextSock + 1
  /\ UNCHANGED <<upstream, now, maxSize, ttl, cleannerInterval, deadline,
                 callVars, anyGet, args>>

\* a caller gets a socket
PoolGet ==
  /\ ~panicked
  /\ \E r \in {Get(pool, lastClean, now)} :
         /\ PoolEffect(r)
         /\ held' = IF r.ret = NilConn THEN held ELSE held \cup {r.ret}
         /\ lastOp' = Observed("get", r, r.popped, r.ret)
  /\ anyGet' = TRUE
  /\ UNCHANGED <<upstream, now, maxSize, ttl, cleannerInterval, nextSock,
                 deadline, callVars, putLog, args>>

\* a caller closes a socket it holds, as exchange does after an I/O error
PoolCallerClose ==
  /\ ~panicked
  /\ \E c \in held :
       /\ CloseConn(c)
       /\ held' = held \ {c}
  /\ UNCHANGED <<upstream, now, poolVars, nextSock, deadline, panicked,
                 callVars, lastOp, putLog, anyGet, args>>

PoolNext ==
  \/ Tick
  \/ PoolPut
  \/ PoolGet
  \/ PoolCallerClose

PoolSpec == PoolInit /\ [][PoolNext]_vars

\* ------------------------------------------------- the factory called once
\* the addresses tried; net.ResolveUDPAddr accepts the first two
Addrs == {"1.1.1.1:53", "[::1]:53", "1.1.1.1"}

Resolves(addr) == addr \in {"1.1.1.1:53", "[::1]:53"}

Urls == {"", "https://a/dns-query", "https://b/dns-query"}

\* no upstream was made yet
NoUpstream == [kind |-> "none", err |-> "none"]

FactoryInit ==
  /\ InitCommon
  /\ upstream = NoUpstream
  /\ args \in [addr : Addrs, prot : Prots, url : Urls, rootCAs : BOOLEAN]
  /\ maxSize = PoolCap
  /\ ttl = PoolTTL
  /\ cleannerInterval = PoolTTL

\* newUpstream(addr, prot, url, rootCAs) is called
CreateUpstream ==
  /\ upstream = NoUpstream
  /\ upstream' = newUpstream(Resolves(args.addr), args.prot, args.url = "")
  /\ UNCHANGED <<now, poolVars, sockVars, panicked, callVars, held, lastOp,
                 putLog, anyGet, args>>

FactoryNext == CreateUpstream

FactorySpec == FactoryInit /\ [][FactoryNext]_vars

\* ----------------------------------------------------------------- claims
Udp(e) == upstream.kind = "udp"

Returned(e) == pc[e] = "done"

\* the last message read by call e is well formed and carries the query's ID
ReadMatches(e) ==
  lastRead[e].n >= HeaderLen /\ GetMsgID(lastRead[e]) = GetMsgID(qRaw[e])

\* the last message read by call e is well formed and carries another ID
ReadMismatches(e) ==
  lastRead[e].n >= HeaderLen /\ GetMsgID(lastRead[e]) # GetMsgID(qRaw[e])

\* C1: whenever an exchange (TCP or UDP, fresh or reused connection) returns
\* a reply with a nil error, the reply's transaction ID equals the query's.
C1_ReplyIdMatches ==
  \A e \in Calls :
    (Returned(e) /\ res[e].err = "nil")
      => GetMsgID(res[e].rRaw) = GetMsgID(qRaw[e])

\* C2: when the reply read on a freshly dialed connection carries another
\* transaction ID than the query, the exchange fails with the ID-mismatch
\* error and returns no reply.
C2_FreshMismatchFails ==
  \A e \in Calls :
    (Returned(e) /\ isNewConn[e] /\ ReadMismatches(e))
      => (res[e].err = "ErrId" /\ res[e].rRaw = NoMsg)

\* C3: a UDP exchange on a reused connection that reads a matching reply
\* (after any mismatched ones it discarded) while its context is not
\* cancelled has returned that reply with a nil error and has put the
\* connection back into the pool.
C3_ReusedMatchReturned ==
  \A e \in Calls :
    (Udp(e) /\ pc[e] \in {"read", "done"} /\ ~isNewConn[e] /\ ~ctxDone[e]
       /\ ReadMatches(e))
      => (Returned(e) /\ res[e] = [err |-> "nil", rRaw |-> lastRead[e]]
            /\ disp[e] = "put")

\* C4: the read of an exchange whose context was cancelled (the watcher
\* forced the deadline) makes the exchange return a timeout error; UDP hands
\* the socket to put, TCP closes the connection.
C4_CancelledRead ==
  [][\A e \in Calls :
       (pc[e] = "read" /\ ctxDone[e] /\ deadline[conn[e]])
         => /\ UdpRead(e) => (pc'[e] = "done" /\ res'[e].err = "timeout"
                                /\ disp'[e] = "put")
            /\ TcpRead(e) => (pc'[e] = "done" /\ res'[e].err = "timeout"
                                /\ closeCount'[conn[e]] >= 1)]_vars

\* C5: a UDP exchange whose I/O failed only because its context was
\* cancelled (a timeout error with the context cancelled) did not close its
\* socket: it handed it to put.
C5_CancelNeverCloses ==
  \A e \in Calls :
    (Udp(e) /\ Returned(e) /\ ctxDone[e] /\ res[e].err = "timeout")
      => disp[e] = "put"

\* the ages, at the instant of the last pool operation, of the entries it left
AgeAtLastOp(i) == lastOp.at - pool[i].lastUsed

\* C6: after any sequence of get and put calls, for any maxSize >= 0, the
\* pool holds at most maxSize entries.
C6_PoolWithinCapacity == Len(pool) <= maxSize

\* a put that found the pool full, after more puts than the pool can hold
C6_Witness ==
  /\ lastOp.op = "put"
  /\ ~panicked
  /\ maxSize >= 1
  /\ Len(pool) = maxSize
  /\ Len(putLog) > maxSize

\* C7: when the entry popped by get is older than TTL, get closes its socket
\* and returns nil, whether or not a sweep ran in that call.
C7_ExpiredPopClosed ==
  (lastOp.op = "get" /\ lastOp.popped # NoEntry
     /\ lastOp.at - lastOp.popped.lastUsed > ttl)
    => /\ ~lastOp.panic
       /\ lastOp.ret = NilConn
       /\ lastOp.popped.conn \in Socks
       /\ closeCount[lastOp.popped.conn] >= 1

\* C8 as stated: at the instant of the last get or put (each runs
\* runCleanner), no entry left in the pool is older than TTL, for any TTL and
\* cleanup interval.
C8_NoEntryOlderThanTTL ==
  (lastOp.op # "none" /\ ~lastOp.panic)
    => \A i \in DOMAIN pool : AgeAtLastOp(i) <= ttl

\* C8 amended: a get or put that returns after running a sweep (scheduled or
\* capacity) leaves only entries younger than TTL.
C8_SweptPoolIsYoung ==
  (lastOp.op # "none" /\ ~lastOp.panic /\ (lastOp.scheduled \/ lastOp.capacity))
    => \A i \in DOMAIN pool : AgeAtLastOp(i) < ttl

\* a scheduled sweep that closed an entry and kept an older-than-now one
C8_Witness ==
  /\ lastOp.op # "none"
  /\ lastOp.scheduled
  /\ ~lastOp.panic
  /\ \E i \in DOMAIN pool : AgeAtLastOp(i) >= 1
  /\ \E c \in Socks : closeCount[c] >= 1

\* C9: when more than maxSize sockets were put, with no get and no entry
\* reaching TTL, every put returned, the pool holds at most maxSize entries
\* and the oldest half of the first maxSize sockets put were closed.
C9_OverflowEvictsOldestHalf ==
  (~anyGet /\ now < ttl /\ Len(putLog) > maxSize)
    => /\ ~panicked
       /\ Len(pool) <= maxSize
       /\ \A k \in 1..(maxSize \div 2) : closeCount[putLog[k]] >= 1

\* the places that own socket c: pool entries, in-flight exchanges, closed
PoolOwns(c) == Cardinality({i \in DOMAIN pool : pool[i].conn = c})

ExchangesOwning(c) == Cardinality({e \in InFlight : conn[e] = c})

Destroyed(c) == IF closeCount[c] >= 1 THEN 1 ELSE 0

\* C10: every socket dialed is at every instant owned by exactly one of the
\* pool, one in-flight exchange, or destroyed (closed).
C10_SingleOwner ==
  \A c \in 1..nextSock : PoolOwns(c) + ExchangesOwning(c) + Destroyed(c) = 1

\* an exchange runs on a socket it got from the pool while the pool owns
\* another socket
C10_Witness ==
  /\ ~panicked
  /\ Udp(1)
  /\ \E e \in InFlight : ~isNewConn[e] /\ PoolOwns(conn[e]) = 0
  /\ \E c \in 1..nextSock : PoolOwns(c) = 1

\* an exchange other than e is running on socket c
OtherExchangeOwns(e, c) == \E x \in InFlight : x # e /\ conn[x] = c

\* C11: an exchange that obtained a socket and returned has closed it or
\* passed it to put: the socket is closed, in the pool, or already taken
\* from the pool by a later exchange; a TCP connection is closed.
C11_NoSocketLeftOpen ==
  \A e \in Calls :
    (Returned(e) /\ conn[e] # NilConn)
      => /\ disp[e] \in {"put", "close"}
         /\ \/ closeCount[conn[e]] >= 1
            \/ disp[e] = "put" /\ PoolOwns(conn[e]) = 1
            \/ disp[e] = "put" /\ OtherExchangeOwns(e, conn[e])
         /\ upstream.kind = "tcp" => closeCount[conn[e]] >= 1

\* one exchange returned after closing its socket on a short read, another
\* after putting its socket on the cancellation timeout
C11_Witness ==
  /\ \E e \in Calls : Returned(e) /\ res[e].err = "short" /\ disp[e] = "close"
  /\ \E e \in Calls : Returned(e) /\ res[e].err = "timeout" /\ disp[e] = "put"

FailureCase(a) ==
  \/ a.prot \in {"udp", ""} /\ ~Resolves(a.addr)
  \/ a.prot = "doh" /\ a.url = ""
  \/ a.prot \notin {"tcp", "udp", "", "doh"}

\* C12: newUpstream fails exactly when the transport is "udp" or empty and
\* the address does not resolve (resolution error), when it is "doh" and url
\* is empty (configuration error), or when it is none of "tcp", "udp", "",
\* "doh" (unsupported protocol); otherwise it returns an upstream and a nil
\* error; "tcp" never fails and "" gives what "udp" gives.
C12_FactoryFailures ==
  upstream # NoUpstream
    => /\ upstream.err # "nil" <=> FailureCase(args)
       /\ upstream.err = "nil" <=> upstream.kind # "none"
       /\ (args.prot \in {"udp", ""} /\ ~Resolves(args.addr))
            => upstream.err = "resolve"
       /\ (args.prot = "doh" /\ args.url = "") => upstream.err = "needsURL"
       /\ args.prot \notin {"tcp", "udp", "", "doh"}
            => upstream.err = "unsupported"
       /\ args.prot = "tcp" => upstream = [kind |-> "tcp", err |-> "nil"]
       /\ args.prot = ""
            => upstream = newUpstream(Resolves(args.addr), "udp", args.url = "")

\* newUpstream returned the configuration error for "doh" without a url
C12_Witness ==
  /\ args.prot = "doh"
  /\ args.url = ""
  /\ upstream.err = "needsURL"

\* C13: between pool calls every entry of the pool holds a live socket: an
\* entry whose socket a sweep closed is no longer in the pool.
C13_EntriesAreLive ==
  ~panicked
    => \A i \in DOMAIN pool :
         pool[i].conn # NilConn /\ closeCount[pool[i].conn] = 0

\* C18: across any sequence of get and put calls Close is invoked at most
\* once per socket, and never through an entry whose socket reference was
\* already closed and set to nil.
C18_CloseOnlyOnce ==
  /\ ~panicked
  /\ \A c \in Socks : closeCount[c] <= 1

\* C14: once a UDP exchange has put its connection into the pool, on the
\* success path or on the cancellation-timeout path, its watcher never sets
\* a deadline afterwards, whenever the watcher runs and whenever the context
\* is cancelled.
C14_NoDeadlineAfterPut ==
  [][\A e \in Calls :
       (Udp(e) /\ Returned(e) /\ disp[e] = "put")
         => (forced'[e] = forced[e] /\ (Watcher(e) => deadline' = deadline))]_vars

\* the context of an exchange was cancelled after it put its connection, and
\* its watcher ran without forcing a deadline
C14_Witness ==
  \E e \in Calls :
    /\ Udp(e) /\ Returned(e) /\ disp[e] = "put" /\ res[e].err = "nil"
    /\ ctxDone[e] /\ watcher[e] = "exited" /\ forced[e] = 0

\* the exchanges that ran on socket c
UsersOf(c) == {e \in Calls : conn[e] = c}

\* how many times the deadline of socket c was forced
RECURSIVE SumForced(_)
SumForced(S) ==
  IF S = {} THEN 0
  ELSE forced[CHOOSE e \in S : TRUE] + SumForced(S \ {CHOOSE e \in S : TRUE})

\* C15 as stated: per UDP exchange the watcher forces the deadline at most
\* once, and exactly once if the context is cancelled before the exchange
\* has disarmed the gate: when the gate of an exchange whose context is
\* already cancelled is taken, it is taken by the watcher forcing the
\* deadline.
C15_ForcedOnceIfCancelledFirst ==
  [][\A e \in Calls :
       Udp(e)
         => /\ forced'[e] <= 1
            /\ (ctxDone[e] /\ ~onceDone[e] /\ onceDone'[e])
                 => forced'[e] = 1]_vars

\* C15 amended: per UDP exchange the watcher forces the deadline at most
\* once; it forces it exactly when it takes the gate, which needs the
\* context cancelled, and not when the exchange disarmed the gate first
\* (putting its connection); a connection used by N exchanges has its
\* deadline forced at most N times.
C15_ForcedOnlyThroughGate ==
  /\ \A e \in Calls :
       Udp(e)
         => /\ forced[e] <= 1
            /\ forced[e] = 1
                 => (ctxDone[e] /\ onceDone[e] /\ watcher[e] = "exited")
            /\ (watcher[e] = "exited" /\ forced[e] = 0)
                 => (ctxDone[e] /\ onceDone[e])
  /\ \A c \in 1..nextSock :
       Udp(1) => SumForced(UsersOf(c)) <= Cardinality(UsersOf(c))

\* one connection whose deadline was forced by two exchanges, each once
C15_Witness ==
  \E c \in 1..nextSock :
    /\ Udp(1)
    /\ Cardinality(UsersOf(c)) = 2
    /\ SumForced(UsersOf(c)) = 2

\* C16: a get that, after cleanup, finds the pool non-empty with a last
\* entry of age at most TTL returns that entry's socket, which is not nil;
\* get returns nil only when the pool is empty after cleanup or the popped
\* entry is expired.
C16_GetReturnsLastEntry ==
  (lastOp.op = "get" /\ ~lastOp.panic)
    => /\ (lastOp.popped # NoEntry
             /\ lastOp.at - lastOp.popped.lastUsed <= ttl)
            => (lastOp.ret = lastOp.popped.conn /\ lastOp.ret # NilConn)
       /\ lastOp.ret = NilConn
            => \/ lastOp.popped = NoEntry
               \/ lastOp.at - lastOp.popped.lastUsed > ttl

\* C20: the entries of the pool are ordered by lastUsed, non-decreasing
\* from the first index to the last.
C20_OrderedByLastUsed ==
  \A i, j \in DOMAIN pool : i < j => pool[i].lastUsed <= pool[j].lastUsed

\* a sweep closed a socket and left entries of different ages in the pool
C20_Witness ==
  /\ lastOp.op # "none"
  /\ ~lastOp.panic
  /\ lastOp.scheduled \/ lastOp.capacity
  /\ \E c \in Socks : closeCount[c] >= 1
  /\ \E i, j \in DOMAIN pool : i < j /\ pool[i].lastUsed < pool[j].lastUsed

\* C19: in a UDP exchange a read fails with a timeout only if the
\* exchange's own context was cancelled: an expired deadline is on the
\* socket of a running exchange only when that exchange's watcher forced it.
C19_TimeoutOnlyByOwnCancel ==
  \A e \in Calls :
    Udp(e)
      => /\ (e \in InFlight /\ deadline[conn[e]])
              => (ctxDone[e] /\ forced[e] = 1)
         /\ (Returned(e) /\ res[e].err = "timeout") => ctxDone[e]

\* an exchange reads on a connection whose deadline an earlier exchange's
\* watcher had forced, and finds no deadline on it
C19_Witness ==
  \E e, x \in Calls :
    /\ Udp(e) /\ x # e /\ conn[x] = conn[e]
    /\ Returned(x) /\ forced[x] = 1 /\ disp[x] = "put"
    /\ pc[e] = "read" /\ ~isNewConn[e] /\ ~ctxDone[e] /\ ~deadline[conn[e]]

\* the context of a UDP exchange reading on a reused connection is cancelled
CancelledInRetryLoop(e) ==
  Udp(e) /\ pc[e] = "read" /\ ~isNewConn[e] /\ ctxDone[e]

\* C17: a UDP exchange reading on a reused connection whose context is
\* cancelled eventually returns, however many mismatched replies the socket
\* delivers.
C17_CancelledExchangeReturns ==
  CancelledInRetryLoop(Last) ~> Returned(Last)

\* unless the process ends in a panic, such an exchange does return
CancelledReturnsUnlessPanic ==
  CancelledInRetryLoop(Last) ~> (Returned(Last) \/ panicked)

====
